---- MODULE Spec2Model ----
(***************************************************************************)
(* SignLanguageProcessor.processVideo: one video-to-text session.          *)
(* A session checks the model, extracts frames (thumbnails), classifies    *)
(* the frames one by one, feeds each classification result to the          *)
(* consistency logic that builds translatedText, deletes the frame file    *)
(* and reports progress.                                                   *)
(*                                                                         *)
(* Confidences are scaled by 100 (0.8 is 80).  Every await of the source   *)
(* is a step of the state machine; the synchronous code that follows an    *)
(* await belongs to the step that resolves it.                             *)
(***************************************************************************)
EXTENDS Integers, Sequences, FiniteSets, TLC

\* ------------------------------------------------------------ bounds
\* Letters of LETTER_PREDICTIONS the classifier is let to output.
NumLetters == 2
\* Most thumbnails a video yields when two sessions run at once.
MaxTwoFrames == 4
\* Most option presses on the home screen.
MaxPresses == 6
\* Most thumbnails a video yields when deleteAsync can reject.
MaxFailFrames == 5
\* Most thumbnails a recorded video yields with the default configuration.
MaxVideoFrames == 17
\* A tuned-down CONSISTENCY_FRAMES, and the longest video decoded with it.
TunedRun == 3
MaxTunedFrames == 9

\* ------------------------------------------------------------ constants
CONFIDENCE_THRESHOLD == 80
CONSISTENCY_FRAMES == 15
frameCount == 100

Alphabet ==
  <<"A", "B", "C", "D", "E", "F", "G", "H", "I", "K", "L", "M",
    "N", "O", "P", "Q", "R", "S", "T", "U", "V", "W", "X", "Y">>

LETTER_PREDICTIONS == {Alphabet[k] : k \in 1..NumLetters}

\* Confidences a model output carries: below, at and above the threshold.
Confidences == {50, CONFIDENCE_THRESHOLD, 90}

\* The two bodies of processFrame the repository holds: the placeholder of
\* SignLanguageProcessor.ts and the one services/README.md gives for it.
Impls == {"placeholder", "readme"}

\* ------------------------------------------------------------ values
null == [letter |-> "null", confidence |-> 0]
thrown == [letter |-> "thrown", confidence |-> 0]

Throw == [kind |-> "throw", letter |-> "", confidence |-> 0]
Read == [kind |-> "read", letter |-> "", confidence |-> 0]
Output(l, c) == [kind |-> "output", letter |-> l, confidence |-> c]

\* What can happen inside the try block of the placeholder processFrame:
\* readAsStringAsync rejects, or the frame is read (and the model is not run).
PlaceholderEvents == {Throw, Read}

\* What can happen inside the try block of the README's processFrame:
\* preprocessing or model.run rejects, or the best prediction is found.
ReadmeEvents ==
  {Throw} \cup {Output(l, c) : l \in LETTER_PREDICTIONS, c \in Confidences}

FrameEvents(im) == IF im = "placeholder" THEN PlaceholderEvents ELSE ReadmeEvents

\* The processVideo calls running at once on the one processor instance.
Calls == {1, 2}

\* let translatedText = ''; let lastPredictedLetter = ''; let framesConsistent = 0
FreshLocals == [last |-> "", count |-> 0, text |-> <<>>]

FreshCall ==
  [pc |-> "idle", frames |-> 0, i |-> 0, progress |-> -1, callText |-> <<>>,
   returned |-> <<>>,
   alone |-> [locals |-> FreshLocals, progress |-> -1, callText |-> <<>>,
              returned |-> <<>>]]

\* useState<number | null>(null): the value standing for null.
NoOption == -1

\* The ids of the entries of CameraCommunicationData.
CameraCommunicationData == {1, 2}

VARIABLES
  impl,                 \* which body processFrame has
  model,                \* the model argument: "null" or "loaded"
  consistencyFrames,    \* this.CONSISTENCY_FRAMES of the instance
  pc,                   \* position of the session
  frames,               \* frames.length (handles are 0..frames-1)
  i,                    \* loop index of processVideo
  translatedText,
  lastPredictedLetter,
  framesConsistent,
  progress,             \* percent of the last onProgress call, -1: none yet
  callFrame,            \* loop index of the last onProgress call of the loop, -1: none
  callText,             \* third argument of the last onProgress call
  frameUris,            \* the frames array: extraction index of each frame
  classified,           \* frames handed to processFrame, in call order
  deleted,              \* frames handed to deleteAsync, in call order
  undeleted,            \* frames whose deleteAsync rejected
  cancelRequested,      \* the caller has asked for the session to stop
  session,              \* which processVideo call of the caller this is: 1, 2
  carried,              \* the call before this one ended with a text and a run
  activeId,             \* Home: the activeId state
  presses,              \* Home: the option ids pressed so far, in order
  calls,                \* SpecTwo: the two processVideo calls in flight
  locals,               \* SpecTwo: translatedText, lastPredictedLetter,
                        \*          framesConsistent of each call
  outcome,              \* "none", "returned", or the message of the Error thrown
  agreeLetter,          \* history: letter of the trailing run of qualifying outputs
  agree,                \* history: length of that run
  eventKind,            \* history: what the last classified frame produced
  onlyAtThreshold,      \* history: every output so far had confidence = threshold
  followsABB,           \* history: the events so far are a prefix of ScenarioABB
  followsDip,           \* history: the events so far are a prefix of ScenarioDip
  fresh,                \* history: the locals of a first call fed this call's results
  heldSince             \* history: frames since the last commit, every one of them
                        \*          a prediction of the committed letter; -1: none

vars ==
  <<impl, model, consistencyFrames, pc, frames, i, translatedText,
    lastPredictedLetter, framesConsistent, progress, callFrame, callText,
    frameUris, classified, deleted, undeleted, cancelRequested, session, carried,
    activeId, presses, calls, locals, outcome, agreeLetter, agree, eventKind,
    onlyAtThreshold, followsABB, followsDip, fresh, heldSince>>

\* ------------------------------------------------------------ processFrame
\* The placeholder without its try/catch: the failure reaches the caller.
processFramePlaceholderUncaught(ev) ==
  IF ev.kind = "throw" THEN thrown ELSE null

\* The placeholder with the guide's temporary mock prediction in it.
processFramePlaceholderMock(ev) ==
  IF ev.kind = "throw" THEN null ELSE [letter |-> "A", confidence |-> 90]

\* SignLanguageProcessor.ts: the frame is read, no prediction is made.
processFramePlaceholder(ev) ==
  IF ev.kind = "throw" THEN null ELSE null

\* The README's processFrame returning the best prediction whatever its
\* confidence.
processFrameReadmeUnfiltered(ev) ==
  IF ev.kind = "throw" THEN null
  ELSE [letter |-> ev.letter, confidence |-> ev.confidence]

\* services/README.md: the best prediction, if its confidence is above the
\* threshold.
processFrameReadme(ev) ==
  IF ev.kind = "throw" THEN null
  ELSE IF ev.confidence > CONFIDENCE_THRESHOLD
    THEN [letter |-> ev.letter, confidence |-> ev.confidence]
    ELSE null

processFrame(im, ev) ==
  IF im = "placeholder" THEN processFramePlaceholder(ev) ELSE processFrameReadme(ev)

\* ------------------------------------------------------------ consistency logic
\* The loop body committing on every frame of a run that is long enough.
ConsistencyLogicEveryFrame(last, count, text, letter, required) ==
  LET c1 == IF letter = last THEN count + 1 ELSE 0
      commit == (c1 >= required)
  IN  [last |-> letter,
       count |-> c1,
       text |-> IF commit THEN Append(text, letter) ELSE text]

\* The loop body putting a committed letter in front of the text.
ConsistencyLogicPrepends(last, count, text, letter, required) ==
  LET c1 == IF letter = last THEN count + 1 ELSE 0
      commit == (c1 = required)
  IN  [last |-> letter,
       count |-> IF commit THEN 0 ELSE c1,
       text |-> IF commit THEN <<letter>> \o text ELSE text]

\* The loop body without the reset of framesConsistent after a commit.
ConsistencyLogicNoReset(last, count, text, letter, required) ==
  LET c1 == IF letter = last THEN count + 1 ELSE 0
      commit == (c1 = required)
  IN  [last |-> letter,
       count |-> c1,
       text |-> IF commit THEN Append(text, letter) ELSE text]

\* The loop body of processVideo for a result that is not null.
ConsistencyLogic(last, count, text, letter, required) ==
  LET c1 == IF letter = last THEN count + 1 ELSE 0
      commit == (c1 = required)
  IN  [last |-> letter,
       count |-> IF commit THEN 0 ELSE c1,
       text |-> IF commit THEN Append(text, letter) ELSE text]

\* The percent computed from the frames still to come.
FrameProgressRemaining(idx, n) == 30 + (((n - idx) * 60) \div n)

\* The percent running up to 100 over the loop.
FrameProgressToHundred(idx, n) == 30 + (((idx + 1) * 70) \div n)

\* The percent spread over the whole range 0..100.
FrameProgressFromZero(idx, n) == (idx * 100) \div n

FrameProgress(idx, n) == 30 + ((idx * 60) \div n)

\* ------------------------------------------------------------ scenarios
ScenarioABB ==
  <<Output("A", 90), Output("A", 90), Output("A", 90),
    Output("B", 90), Output("B", 90), Output("B", 90),
    Output("B", 90), Output("B", 90), Output("B", 90)>>

ScenarioDip ==
  <<Output("A", 50)>> \o [k \in 1..consistencyFrames |-> Output("A", 90)]

IsNext(scenario, idx, ev) == idx + 1 <= Len(scenario) /\ scenario[idx + 1] = ev

\* "throw", "read", or where an output's confidence lies against the threshold.
KindOf(ev) ==
  IF ev.kind # "output" THEN ev.kind
  ELSE IF ev.confidence < CONFIDENCE_THRESHOLD THEN "below"
  ELSE IF ev.confidence = CONFIDENCE_THRESHOLD THEN "at"
  ELSE "above"

Qualifies(ev) == ev.kind = "output" /\ ev.confidence >= CONFIDENCE_THRESHOLD

\* ------------------------------------------------------------ Init
MaxFramesOf(required) ==
  IF required = CONSISTENCY_FRAMES THEN MaxVideoFrames ELSE MaxTunedFrames

Init ==
  /\ impl \in Impls
  /\ model \in {"null", "loaded"}
  /\ consistencyFrames \in {TunedRun, CONSISTENCY_FRAMES}
  /\ pc = "idle"
  /\ frames = 0
  /\ i = 0
  /\ translatedText = <<>>
  /\ lastPredictedLetter = ""
  /\ framesConsistent = 0
  /\ progress = -1
  /\ callFrame = -1
  /\ callText = <<>>
  /\ frameUris = <<>>
  /\ classified = <<>>
  /\ deleted = <<>>
  /\ undeleted = {}
  /\ cancelRequested = FALSE
  /\ session = 1
  /\ carried = FALSE
  /\ activeId = NoOption
  /\ presses = <<>>
  /\ calls = [c \in Calls |-> FreshCall]
  /\ locals = [c \in Calls |-> FreshLocals]
  /\ outcome = "none"
  /\ agreeLetter = ""
  /\ agree = 0
  /\ eventKind = "none"
  /\ onlyAtThreshold = TRUE
  /\ followsABB = TRUE
  /\ followsDip = TRUE
  /\ fresh = FreshLocals
  /\ heldSince = -1

Session == <<translatedText, lastPredictedLetter, framesConsistent>>
History ==
  <<agreeLetter, agree, eventKind, onlyAtThreshold, followsABB, followsDip,
    fresh, heldSince>>
Config == <<impl, model, consistencyFrames>>
Report == <<progress, callFrame, callText>>
Files == <<frameUris, classified, deleted, undeleted>>
Caller == <<cancelRequested, session, carried>>
HomeScreen == <<activeId, presses>>
Others == <<calls, locals, HomeScreen>>

\* The history variable fresh after a frame with this result.
FreshAfter(result) ==
  IF result = null \/ result = thrown THEN fresh
  ELSE ConsistencyLogic(fresh.last, fresh.count, fresh.text, result.letter,
                        consistencyFrames)

\* The history variable heldSince after a frame with this result.
HeldAfter(result) ==
  IF result = null \/ result = thrown THEN -1
  ELSE IF result.letter # lastPredictedLetter THEN -1
  ELSE IF Len(ConsistencyLogic(lastPredictedLetter, framesConsistent,
                               translatedText, result.letter,
                               consistencyFrames).text) > Len(translatedText)
    THEN 0
  ELSE IF heldSince >= 0 THEN heldSince + 1
  ELSE -1

\* onProgress(percent, currentLetter, currentText) is called.
OnProgress(percent, idx, text) ==
  /\ progress' = percent
  /\ callFrame' = idx
  /\ callText' = text

\* The frames array indexed from its end.
FrameAtReversed(uris, idx) == uris[Len(uris) - idx]

\* frames[i]
FrameAt(uris, idx) == uris[idx + 1]

\* ------------------------------------------------------------ processVideo
\* Lines 110-117: the model check, the first progress call, extractFrames up
\* to its first await.
\* The first progress call made ahead of the model check.
StartRejectedAfterProgress ==
  /\ pc = "idle"
  /\ model = "null"
  /\ OnProgress(10, -1, <<"Extracting frames...">>)
  /\ pc' = "thrown"
  /\ outcome' = "Model not loaded"
  /\ UNCHANGED <<Config, frames, i, Session, History, Files, Caller, Others>>

StartRejected ==
  /\ pc = "idle"
  /\ model = "null"
  /\ pc' = "thrown"
  /\ outcome' = "Model not loaded"
  /\ UNCHANGED <<Config, frames, i, Session, Report, History, Files, Caller, Others>>

Start ==
  /\ pc = "idle"
  /\ model # "null"
  /\ OnProgress(10, -1, <<"Extracting frames...">>)
  /\ pc' = "extracting"
  /\ UNCHANGED <<Config, frames, i, Session, outcome, History, Files, Caller, Others>>

\* processVideo without the frames.length check: an empty loop, then the return.
AfterExtractUnchecked(n) ==
  /\ frames' = n
  /\ translatedText' = <<>>
  /\ lastPredictedLetter' = ""
  /\ framesConsistent' = 0
  /\ i' = 0
  /\ IF n = 0
       THEN /\ OnProgress(100, -1, <<>>)
            /\ pc' = "returned"
            /\ outcome' = "returned"
            /\ UNCHANGED classified
       ELSE /\ OnProgress(30, -1, <<"Processing frames...">>)
            /\ pc' = "classifying"
            /\ classified' = Append(classified, FrameAt(frameUris', 0))
            /\ UNCHANGED outcome

\* Lines 119-130 with the three locals left as they are.
AfterExtractKeepsLocals(n) ==
  /\ frames' = n
  /\ IF n = 0
       THEN /\ pc' = "thrown"
            /\ outcome' = "No frames extracted from video"
            /\ UNCHANGED <<Report, Session, i, classified>>
       ELSE /\ OnProgress(30, -1, <<"Processing frames...">>)
            /\ UNCHANGED Session
            /\ i' = 0
            /\ pc' = "classifying"
            /\ classified' = Append(classified, FrameAt(frameUris', 0))
            /\ UNCHANGED outcome

\* Lines 119-130 once extractFrames has returned n frames.
AfterExtract(n) ==
  /\ frames' = n
  /\ IF n = 0
       THEN /\ pc' = "thrown"
            /\ outcome' = "No frames extracted from video"
            /\ UNCHANGED <<Report, Session, i, classified>>
       ELSE /\ OnProgress(30, -1, <<"Processing frames...">>)
            /\ translatedText' = <<>>
            /\ lastPredictedLetter' = ""
            /\ framesConsistent' = 0
            /\ i' = 0
            /\ pc' = "classifying"
            /\ classified' = Append(classified, FrameAt(frameUris', 0))
            /\ UNCHANGED outcome

\* getThumbnailAsync resolves: the frame is pushed; the loop ends at frameCount.
ThumbnailResolves(videoFrames) ==
  /\ pc = "extracting"
  /\ frames < frameCount
  /\ frames < videoFrames
  /\ frameUris' = Append(frameUris, frames)
  /\ IF frames + 1 = frameCount
       THEN AfterExtract(frames + 1)
       ELSE /\ frames' = frames + 1
            /\ UNCHANGED <<pc, i, Session, Report, outcome, classified>>
  /\ UNCHANGED <<Config, History, deleted, undeleted, Caller, Others>>

ThumbnailOk == ThumbnailResolves(MaxFramesOf(consistencyFrames))

\* The rejection of getThumbnailAsync reaching extractFrames' outer catch.
ThumbnailFailThrows ==
  /\ pc = "extracting"
  /\ pc' = "thrown"
  /\ outcome' = "Failed to extract video frames"
  /\ UNCHANGED <<Config, frames, i, Session, Report, History, Files, Caller, Others>>

\* getThumbnailAsync rejects: the video is shorter, the loop breaks.
ThumbnailFail ==
  /\ pc = "extracting"
  /\ UNCHANGED frameUris
  /\ AfterExtract(frames)
  /\ UNCHANGED <<Config, History, deleted, undeleted, Caller, Others>>

\* Lines 130-157: processFrame resolves for frames[i]; the consistency logic
\* and the progress call run; deleteAsync is called for frames[i].
Classify(ev) ==
  /\ pc = "classifying"
  /\ LET result == processFrame(impl, ev)
         d == ConsistencyLogic(lastPredictedLetter, framesConsistent,
                               translatedText, result.letter, consistencyFrames)
     IN  IF result = thrown
           THEN /\ pc' = "thrown"
                /\ outcome' = "Error processing frame"
                /\ UNCHANGED <<Session, Report, deleted>>
           ELSE /\ pc' = "deleting"
                /\ deleted' = Append(deleted, FrameAt(frameUris, i))
                /\ UNCHANGED outcome
                /\ IF result # null
                     THEN /\ lastPredictedLetter' = d.last
                          /\ framesConsistent' = d.count
                          /\ translatedText' = d.text
                          /\ OnProgress(FrameProgress(i, frames), i, d.text)
                     ELSE UNCHANGED <<Session, Report>>
  /\ agree' = IF Qualifies(ev)
                THEN (IF ev.letter = agreeLetter THEN agree + 1 ELSE 1)
                ELSE 0
  /\ agreeLetter' = IF Qualifies(ev) THEN ev.letter ELSE ""
  /\ eventKind' = KindOf(ev)
  /\ onlyAtThreshold' =
       (onlyAtThreshold /\ ev.kind = "output" /\ ev.confidence = CONFIDENCE_THRESHOLD)
  /\ followsABB' = (followsABB /\ IsNext(ScenarioABB, i, ev))
  /\ followsDip' = (followsDip /\ IsNext(ScenarioDip, i, ev))
  /\ fresh' = FreshAfter(processFrame(impl, ev))
  /\ heldSince' = HeldAfter(processFrame(impl, ev))
  /\ UNCHANGED <<Config, frames, i, frameUris, classified, undeleted, Caller, Others>>

ProcessFrameStep == \E ev \in FrameEvents(impl) : Classify(ev)

\* The session refusing to return an empty text.
DeleteFrameRejectsEmpty ==
  /\ pc = "deleting"
  /\ i' = i + 1
  /\ IF i + 1 < frames
       THEN /\ pc' = "classifying"
            /\ classified' = Append(classified, FrameAt(frameUris, i + 1))
            /\ UNCHANGED <<Report, outcome>>
       ELSE IF translatedText = <<>>
         THEN /\ pc' = "thrown"
              /\ outcome' = "No signs detected"
              /\ UNCHANGED <<Report, classified>>
         ELSE /\ pc' = "returned"
              /\ OnProgress(100, -1, translatedText)
              /\ outcome' = "returned"
              /\ UNCHANGED classified
  /\ UNCHANGED <<Config, frames, Session, History, frameUris, deleted, undeleted,
                 Caller, Others>>

\* Lines 157-164 and 129-130: deleteAsync settles (a rejection is ignored);
\* the loop goes on to processFrame for the next frame, or ends with the last
\* progress call and the return.
DeleteFrame ==
  /\ pc = "deleting"
  /\ i' = i + 1
  /\ IF i + 1 < frames
       THEN /\ pc' = "classifying"
            /\ classified' = Append(classified, FrameAt(frameUris, i + 1))
            /\ UNCHANGED <<Report, outcome>>
       ELSE /\ pc' = "returned"
            /\ OnProgress(100, -1, translatedText)
            /\ outcome' = "returned"
            /\ UNCHANGED classified
  /\ UNCHANGED <<Config, frames, Session, History, frameUris, deleted, undeleted,
                 Caller, Others>>

Next ==
  \/ StartRejected
  \/ Start
  \/ ThumbnailOk
  \/ ThumbnailFail
  \/ ProcessFrameStep
  \/ DeleteFrame

Spec == Init /\ [][Next]_vars

\* ------------------------------------------------------------ long videos
\* The sessions of the placeholder processFrame on videos of any length: the
\* video yields every thumbnail extractFrames asks for, up to frameCount.
InitLong ==
  /\ Init
  /\ impl = "placeholder"
  /\ consistencyFrames = CONSISTENCY_FRAMES

ThumbnailOkLong == ThumbnailResolves(frameCount)

NextLong ==
  \/ StartRejected
  \/ Start
  \/ ThumbnailOkLong
  \/ ThumbnailFail
  \/ ProcessFrameStep
  \/ DeleteFrame

SpecLong == InitLong /\ [][NextLong]_vars

\* ------------------------------------------------------------ a sign held
\* A video of 3.3 s or more (every thumbnail extractFrames asks for is there)
\* of a signer holding one sign, decoded by the README's processFrame with the
\* default CONSISTENCY_FRAMES: a frame gives the sign with confidence 0.9, or
\* no prediction.
HeldEvents == {Throw, Output(Alphabet[1], 90)}

InitHeld ==
  /\ Init
  /\ impl = "readme"
  /\ model = "loaded"
  /\ consistencyFrames = CONSISTENCY_FRAMES

ProcessFrameHeld == \E ev \in HeldEvents : Classify(ev)

NextHeld ==
  \/ Start
  \/ ThumbnailOkLong
  \/ ProcessFrameHeld
  \/ DeleteFrame

SpecHeld == InitHeld /\ [][NextHeld]_vars

\* ------------------------------------------------------------ two sessions at once
\* getSignLanguageProcessor hands every caller the same instance, so two
\* processVideo calls can be in flight on it, their awaits interleaved.  Each
\* call is the session above, on its own arguments; calls[c].alone is what
\* call c computes from its own frames when nothing else runs.

\* translatedText, lastPredictedLetter and framesConsistent are declared with
\* let inside processVideo: each call has its own.
\* The three kept as fields of the instance: one copy for all calls.
SlotShared(c) == 1

Slot(c) == c

OneSession ==
  <<pc, frames, i, Session, Report, outcome, History, Files, Caller>>

InitTwo ==
  /\ Init
  /\ impl = "readme"
  /\ model = "loaded"
  /\ consistencyFrames = TunedRun

\* Lines 110-117.
TwoStart(c) ==
  /\ calls[c].pc = "idle"
  /\ model # "null"
  /\ calls' = [calls EXCEPT ![c].pc = "extracting", ![c].progress = 10,
                            ![c].callText = <<"Extracting frames...">>,
                            ![c].alone.progress = 10,
                            ![c].alone.callText = <<"Extracting frames...">>]
  /\ UNCHANGED <<Config, OneSession, HomeScreen, locals>>

\* Lines 38-46.
TwoThumbnailOk(c) ==
  /\ calls[c].pc = "extracting"
  /\ calls[c].frames + 1 < frameCount
  /\ calls[c].frames < MaxTwoFrames
  /\ calls' = [calls EXCEPT ![c].frames = @ + 1]
  /\ UNCHANGED <<Config, OneSession, HomeScreen, locals>>

\* Lines 47-55 and 119-130.
TwoThumbnailFail(c) ==
  /\ calls[c].pc = "extracting"
  /\ IF calls[c].frames = 0
       THEN /\ calls' = [calls EXCEPT ![c].pc = "thrown"]
            /\ UNCHANGED locals
       ELSE /\ calls' = [calls EXCEPT ![c].pc = "classifying", ![c].i = 0,
                                      ![c].progress = 30,
                                      ![c].callText = <<"Processing frames...">>,
                                      ![c].alone.progress = 30,
                                      ![c].alone.callText = <<"Processing frames...">>,
                                      ![c].alone.locals = FreshLocals]
            /\ locals' = [locals EXCEPT ![Slot(c)] = FreshLocals]
  /\ UNCHANGED <<Config, OneSession, HomeScreen>>

\* Lines 130-153.
TwoClassify(c) ==
  /\ calls[c].pc = "classifying"
  /\ \E ev \in FrameEvents(impl) :
       LET result == processFrame(impl, ev)
           mine == locals[Slot(c)]
           own == calls[c].alone.locals
           d == ConsistencyLogic(mine.last, mine.count, mine.text,
                                 result.letter, consistencyFrames)
           a == ConsistencyLogic(own.last, own.count, own.text,
                                 result.letter, consistencyFrames)
           percent == FrameProgress(calls[c].i, calls[c].frames)
       IN  IF result # null
             THEN /\ locals' = [locals EXCEPT ![Slot(c)] = d]
                  /\ calls' = [calls EXCEPT ![c].pc = "deleting",
                                            ![c].progress = percent,
                                            ![c].callText = d.text,
                                            ![c].alone.locals = a,
                                            ![c].alone.progress = percent,
                                            ![c].alone.callText = a.text]
             ELSE /\ calls' = [calls EXCEPT ![c].pc = "deleting"]
                  /\ UNCHANGED locals
  /\ UNCHANGED <<Config, OneSession, HomeScreen>>

\* Lines 156-164.
TwoDelete(c) ==
  /\ calls[c].pc = "deleting"
  /\ IF calls[c].i + 1 < calls[c].frames
       THEN calls' = [calls EXCEPT ![c].pc = "classifying", ![c].i = @ + 1]
       ELSE calls' = [calls EXCEPT ![c].pc = "returned", ![c].i = @ + 1,
                                  ![c].progress = 100,
                                  ![c].callText = locals[Slot(c)].text,
                                  ![c].returned = locals[Slot(c)].text,
                                  ![c].alone.progress = 100,
                                  ![c].alone.callText = calls[c].alone.locals.text,
                                  ![c].alone.returned = calls[c].alone.locals.text]
  /\ UNCHANGED <<Config, OneSession, HomeScreen, locals>>

NextTwo ==
  \/ \E c \in Calls : TwoStart(c)
  \/ \E c \in Calls : TwoThumbnailOk(c)
  \/ \E c \in Calls : TwoThumbnailFail(c)
  \/ \E c \in Calls : TwoClassify(c)
  \/ \E c \in Calls : TwoDelete(c)

SpecTwo == InitTwo /\ [][NextTwo]_vars

\* ------------------------------------------------------------ one call after another
\* The caller calls processVideo again on the instance once its first call
\* has settled.  Everything of the first call is gone; the variables of the
\* three locals keep what the first call left in them until the new call
\* declares its own (lines 125-127).
CallAgain ==
  /\ pc \in {"returned", "thrown"}
  /\ session = 1
  /\ session' = 2
  /\ carried' = (translatedText # <<>> /\ framesConsistent > 0)
  /\ pc' = "idle"
  /\ frames' = 0
  /\ i' = 0
  /\ progress' = -1
  /\ callFrame' = -1
  /\ callText' = <<>>
  /\ frameUris' = <<>>
  /\ classified' = <<>>
  /\ deleted' = <<>>
  /\ outcome' = "none"
  /\ agreeLetter' = ""
  /\ agree' = 0
  /\ eventKind' = "none"
  /\ onlyAtThreshold' = TRUE
  /\ followsABB' = TRUE
  /\ followsDip' = TRUE
  /\ fresh' = FreshLocals
  /\ heldSince' = -1
  /\ UNCHANGED <<Config, Session, undeleted, cancelRequested, Others>>

InitAgain ==
  /\ Init
  /\ impl = "readme"
  /\ model = "loaded"
  /\ consistencyFrames = TunedRun

NextAgain ==
  \/ Start
  \/ ThumbnailOk
  \/ ThumbnailFail
  \/ ProcessFrameStep
  \/ DeleteFrame
  \/ CallAgain

SpecAgain == InitAgain /\ [][NextAgain]_vars

\* ------------------------------------------------------------ failing deletions
\* deleteAsync rejects for frames[i]: the rejection reaching the caller.
DeleteFrameFailsThrows ==
  /\ pc = "deleting"
  /\ undeleted' = undeleted \cup {FrameAt(frameUris, i)}
  /\ pc' = "thrown"
  /\ outcome' = "deleteAsync rejected"
  /\ UNCHANGED <<Config, frames, i, Session, Report, History, frameUris,
                 classified, deleted, Caller, Others>>

\* Lines 156-160 and 129-130, 163-164: deleteAsync rejects for frames[i], the
\* empty catch swallows it, and the loop goes on as after a deletion.
DeleteFrameFails ==
  /\ pc = "deleting"
  /\ undeleted' = undeleted \cup {FrameAt(frameUris, i)}
  /\ i' = i + 1
  /\ IF i + 1 < frames
       THEN /\ pc' = "classifying"
            /\ classified' = Append(classified, FrameAt(frameUris, i + 1))
            /\ UNCHANGED <<Report, outcome>>
       ELSE /\ pc' = "returned"
            /\ OnProgress(100, -1, translatedText)
            /\ outcome' = "returned"
            /\ UNCHANGED classified
  /\ UNCHANGED <<Config, frames, Session, History, frameUris, deleted,
                 Caller, Others>>

InitDeleteFails ==
  /\ Init
  /\ impl = "readme"
  /\ model = "loaded"
  /\ consistencyFrames = TunedRun

ThumbnailOkShort == ThumbnailResolves(MaxFailFrames)

NextDeleteFails ==
  \/ Start
  \/ ThumbnailOkShort
  \/ ThumbnailFail
  \/ ProcessFrameStep
  \/ DeleteFrame
  \/ DeleteFrameFails

SpecDeleteFails == InitDeleteFails /\ [][NextDeleteFails]_vars

\* ------------------------------------------------------------ the home screen
\* The updater always selecting the pressed option.
handleActiveSelects(prevId, id) == id

\* setActiveId((prevId) => (prevId === id ? null : id))
handleActive(prevId, id) == IF prevId = id THEN NoOption ELSE id

\* isActive={activeId === data.id}
isActive(id) == activeId = id

\* {activeId ? <TouchableOpacity ...>Start Now</TouchableOpacity> : ""}
StartNowShown == activeId # NoOption /\ activeId # 0

\* Nothing is loaded or running while the user is on the home screen.
InitHome ==
  /\ Init
  /\ impl = "placeholder"
  /\ model = "null"
  /\ consistencyFrames = CONSISTENCY_FRAMES

\* onPress={() => onPressOption(id)} of the option's Pressable.
PressOption(id) ==
  /\ Len(presses) < MaxPresses
  /\ activeId' = handleActive(activeId, id)
  /\ presses' = Append(presses, id)
  /\ UNCHANGED <<Config, OneSession, calls, locals>>

NextHome == \E id \in CameraCommunicationData : PressOption(id)

SpecHome == InitHome /\ [][NextHome]_vars

\* ------------------------------------------------------------ a cancelling caller
\* The caller asks for the session to stop while processVideo is suspended
\* with frames still to come.  processVideo takes videoUri, model and
\* onProgress only: the request reaches nothing the session reads.
RequestCancel ==
  /\ pc \in {"classifying", "deleting"}
  /\ (IF pc = "deleting" THEN i + 1 ELSE i) \in 1..(frames - 1)
  /\ ~ cancelRequested
  /\ cancelRequested' = TRUE
  /\ UNCHANGED <<Config, pc, frames, i, Session, Report, outcome, History,
                 Files, session, carried, Others>>

NextCancel ==
  \/ Next
  \/ RequestCancel

SpecCancel == Init /\ [][NextCancel]_vars

\* ------------------------------------------------------------ a throwing callback
\* onProgress is the caller's function and runs inside processVideo's try
\* block: when it throws, the catch of lines 165-168 rethrows and the session
\* ends there.  Spec is the session whose callback returns normally;
\* SpecCallbackThrows adds the calls that throw.
CallbackThrew ==
  /\ pc' = "thrown"
  /\ outcome' = "onProgress threw"

\* Line 116.
StartCallbackThrows ==
  /\ pc = "idle"
  /\ model # "null"
  /\ OnProgress(10, -1, <<"Extracting frames...">>)
  /\ CallbackThrew
  /\ UNCHANGED <<Config, frames, i, Session, History, Files, Caller, Others>>

\* Line 124, after extractFrames returned at least one frame.
ExtractedCallbackThrows ==
  /\ pc = "extracting"
  /\ frames >= 1
  /\ OnProgress(30, -1, <<"Processing frames...">>)
  /\ CallbackThrew
  /\ UNCHANGED <<Config, frames, i, Session, History, Files, Caller, Others>>

\* Line 152: the frame's result is in, the call throws before deleteAsync.
ClassifyCallbackThrows ==
  /\ pc = "classifying"
  /\ \E ev \in FrameEvents(impl) :
       LET result == processFrame(impl, ev)
           d == ConsistencyLogic(lastPredictedLetter, framesConsistent,
                                 translatedText, result.letter, consistencyFrames)
       IN  /\ result # null
           /\ result # thrown
           /\ lastPredictedLetter' = d.last
           /\ framesConsistent' = d.count
           /\ translatedText' = d.text
           /\ OnProgress(FrameProgress(i, frames), i, d.text)
           /\ eventKind' = KindOf(ev)
           /\ fresh' = FreshAfter(result)
           /\ heldSince' = HeldAfter(result)
  /\ CallbackThrew
  /\ UNCHANGED <<Config, frames, i, Files, Caller, Others,
                 agreeLetter, agree, onlyAtThreshold, followsABB, followsDip>>

\* Line 163, after the last frame's deleteAsync.
FinishCallbackThrows ==
  /\ pc = "deleting"
  /\ i + 1 = frames
  /\ i' = i + 1
  /\ OnProgress(100, -1, translatedText)
  /\ CallbackThrew
  /\ UNCHANGED <<Config, frames, Session, History, Files, Caller, Others>>

NextCallbackThrows ==
  \/ Next
  \/ StartCallbackThrows
  \/ ExtractedCallbackThrows
  \/ ClassifyCallbackThrows
  \/ FinishCallbackThrows

SpecCallbackThrows == Init /\ [][NextCallbackThrows]_vars

\* ------------------------------------------------------------ properties
\* Frames classified so far in the session.
Processed == IF pc = "deleting" THEN i + 1 ELSE i

InLoop == pc \in {"classifying", "deleting", "returned"}

\* A letter is appended to translatedText in this step.
Commits == Len(translatedText') = Len(translatedText) + 1

\* processFrame for frames[i] resolves in this step.
FrameStep == pc = "classifying" /\ pc' # "classifying"

\* C1: when every frame so far produced the same letter with confidence at or
\* above the threshold, k frames give floor(k / requiredRun) commits.
C1_CommitsFloor ==
  (InLoop /\ Processed >= 1 /\ agree = Processed)
    => Len(translatedText) = Processed \div consistencyFrames

\* C2: with the default configuration a letter is appended at a frame only if
\* the 15 frames ending there all produced that letter with confidence at or
\* above 0.8.
C2_CommitNeedsFifteen ==
  [][(consistencyFrames = CONSISTENCY_FRAMES /\ Commits)
       => (agree' >= CONSISTENCY_FRAMES
           /\ agreeLetter' = translatedText'[Len(translatedText')])]_vars

\* C3: with requiredRun 3 the outputs A,A,A,B,B,B,B,B,B (all at 0.9) decode
\* to exactly "ABB".
C3_ScenarioABB ==
  (consistencyFrames = 3 /\ followsABB /\ Processed = 9)
    => translatedText = <<"A", "B", "B">>

C5_DipResetsRun ==
  [][(FrameStep /\ eventKind' = "below") => framesConsistent' = 0]_vars

\* C6: a frame with no prediction (nothing returned, or a failure) resets the
\* run count to zero.
C6_NoPredictionResetsRun ==
  [][(FrameStep /\ eventKind' \in {"throw", "read"}) => framesConsistent' = 0]_vars

\* C7: requiredRun frames of one letter, all with confidence exactly at the
\* threshold, produce a commit.
C7_ThresholdInclusive ==
  (InLoop /\ onlyAtThreshold /\ agree = Processed /\ Processed = consistencyFrames)
    => Len(translatedText) >= 1

\* C8: a session that extracted zero frames throws 'No frames extracted from
\* video' with no frame classified; a session that returns had frames.
C8_EmptyInputFails ==
  /\ (frames = 0 /\ pc \notin {"idle", "extracting"} /\ model = "loaded")
       => /\ pc = "thrown"
          /\ outcome = "No frames extracted from video"
          /\ Processed = 0
          /\ eventKind = "none"
  /\ outcome = "returned" => frames >= 1

C8_Witness ==
  outcome = "No frames extracted from video" /\ frames = 0 /\ progress = 10

\* C9: with no model the session throws 'Model not loaded' with nothing
\* extracted, classified, deleted or reported, and that error comes from the
\* start of the session only.
C9_ModelNotLoaded ==
  /\ [](model = "null" =>
          /\ pc \in {"idle", "thrown"}
          /\ frames = 0 /\ i = 0 /\ eventKind = "none" /\ progress = -1
          /\ (pc = "thrown" => outcome = "Model not loaded"))
  /\ [][(outcome' = "Model not loaded" /\ outcome # "Model not loaded")
          => (pc = "idle" /\ model = "null")]_vars

C9_Witness == outcome = "Model not loaded" /\ pc = "thrown"

\* C10: a frame whose classification fails leaves the session running, with
\* the state a frame without prediction leaves; every session that entered
\* the loop throws nothing, can always take its next step, and returns only
\* after its last frame.
C10_FrameFailureAbsorbed ==
  /\ [][FrameStep =>
          /\ pc' = "deleting"
          /\ (eventKind' = "throw" =>
                UNCHANGED <<translatedText, lastPredictedLetter,
                            framesConsistent, progress, outcome, frames, i>>)]_vars
  /\ [](frames >= 1 => pc # "thrown")
  /\ [](pc \in {"classifying", "deleting"} => ENABLED Next)
  /\ [](outcome = "returned" => i = frames)

C10_Witness ==
  /\ outcome = "returned"
  /\ eventKind = "throw"
  /\ Len(translatedText) >= 1

\* Every extracted frame has been handed to deleteAsync.
AllReleased == \A k \in 1..Len(frameUris) : \E j \in 1..Len(deleted) : deleted[j] = frameUris[k]

Ended == pc \in {"returned", "thrown"}

\* C11: whenever the session has ended, by returning or by throwing, every
\* extracted frame has had its deletion attempted.
C11_ReleasedOnEveryExit == Ended => AllReleased

\* C12: every processed frame is followed by a progress call for that frame,
\* whether or not it produced a prediction.
C12_ReportPerFrame == [][FrameStep => callFrame' = i]_vars

\* The percents of the loop, for every frame count extractFrames can return.
LoopPercentsAscend ==
  \A n \in 1..frameCount : \A k \in 0..(n - 1) :
    /\ 30 <= FrameProgress(k, n)
    /\ FrameProgress(k, n) <= 100
    /\ (k + 1 < n => FrameProgress(k, n) <= FrameProgress(k + 1, n))

\* C13: the percents passed to onProgress in a session never decrease, for
\* every frame count 1..100 and every pattern of predictions.
C13_PercentMonotone ==
  /\ [][progress' >= progress]_vars
  /\ [](pc = "idle" => LoopPercentsAscend)

C13_Witness == pc = "deleting" /\ callFrame = i /\ i >= 2 /\ progress > 30

\* C14: 100 is reported once, by the last call of a session that returns,
\* after every frame was consumed and with the text that is returned; never
\* inside the loop, never in a session that fails.
C14_HundredOnceAtReturn ==
  /\ [](progress = 100 =>
          /\ pc = "returned" /\ outcome = "returned"
          /\ i = frames /\ Len(classified) = frames /\ Len(deleted) = frames
          /\ callText = translatedText)
  /\ [](outcome = "returned" => progress = 100)
  /\ [](pc = "thrown" => progress # 100)
  /\ [][progress' = 100 => (progress # 100 /\ pc = "deleting" /\ pc' = "returned")]_vars
  /\ [](pc = "returned" => ~ ENABLED Next)

C14_Witness ==
  outcome = "returned" /\ progress = 100 /\ translatedText = <<"A">> /\ frames >= 2

\* C16: a session over at least one frame that commits nothing runs to its
\* return, returns the empty text after the 100 call, and that outcome is
\* none of the errors thrown for a missing model or for zero frames.
C16_EmptySuccess ==
  /\ (pc \in {"classifying", "deleting"} /\ translatedText = <<>>)
       => (outcome = "none" /\ ENABLED Next)
  /\ (Ended /\ frames >= 1 /\ translatedText = <<>>)
       => (pc = "returned" /\ outcome = "returned" /\ progress = 100 /\ callText = <<>>)
  /\ outcome \in {"Model not loaded", "No frames extracted from video"}
       => (pc = "thrown" /\ frames = 0 /\ progress # 100)

C16_Witness ==
  outcome = "returned" /\ translatedText = <<>> /\ frames >= 2 /\ lastPredictedLetter = "A"

\* C18: frames go to processFrame in extraction order, one at a time: a frame
\* is classified only after every earlier frame was classified, reported and
\* handed to deleteAsync.
C18_SequentialInOrder ==
  /\ frameUris = [k \in 1..Len(frameUris) |-> k - 1]
  /\ classified = SubSeq(frameUris, 1, Len(classified))
  /\ deleted = SubSeq(frameUris, 1, Len(deleted))
  /\ Len(deleted) <= Len(classified) /\ Len(classified) <= Len(deleted) + 1
  /\ pc = "classifying" =>
       (Len(classified) = i + 1 /\ Len(deleted) = i /\ callFrame < i)
  /\ pc = "deleting" => (Len(classified) = i + 1 /\ Len(deleted) = i + 1)

C18_Witness == pc = "returned" /\ frames >= 3 /\ classified = frameUris /\ deleted = frameUris

\* C20: the placeholder processFrame never produces a prediction, and as long
\* as no frame has produced one the progress calls of a session over at
\* least one frame are 10, 30, 100 in that order and the text returned is
\* empty.
C20_PlaceholderProgress ==
  /\ [](impl = "placeholder" => lastPredictedLetter = "")
  /\ [][(lastPredictedLetter' = "" /\ Report' # Report)
          => <<progress, progress'>> \in {<<-1, 10>>, <<10, 30>>, <<30, 100>>}]_vars
  /\ []((outcome = "returned" /\ lastPredictedLetter = "")
          => (progress = 100 /\ translatedText = <<>>))

C20_Witness ==
  impl = "placeholder" /\ outcome = "returned" /\ frames >= 2 /\ progress = 100

\* C15: once the caller has cancelled between frames, no further frame is
\* handed to processFrame and the session ends as Cancelled, not as a
\* returned text.
C15_CancelStopsSession ==
  /\ [][cancelRequested => classified' = classified]_vars
  /\ []((cancelRequested /\ Ended) => outcome = "Cancelled")

\* C17: when getThumbnailAsync first fails at index j, extractFrames throws
\* nothing and returns the frames 0..j-1 in order (all 100 when none fails);
\* with j >= 1 the session goes on over those frames and can only end by
\* returning after the last of them.
C17_ShortVideoTolerated ==
  /\ [][(pc = "extracting" /\ pc' # "extracting") =>
          /\ (frames' = frames \/ frames' = frameCount)
          /\ frameUris' = [k \in 1..frames' |-> k - 1]
          /\ outcome' # "Failed to extract video frames"
          /\ (frames' >= 1 => (pc' = "classifying" /\ outcome' = "none"))]_vars
  /\ [](frames <= frameCount)
  /\ []((frames >= 1 /\ pc \notin {"idle", "extracting"}) =>
          /\ pc # "thrown"
          /\ (pc # "returned" => ENABLED NextLong)
          /\ (pc = "returned" => (i = frames /\ classified = frameUris)))

C17_Witness == outcome = "returned" /\ frames = frameCount - 1

\* C19: with two calls interleaved on one instance, each call's locals, the
\* arguments of its last progress call and the text it returns are those it
\* computes alone from its own frames.
C19_CallsDoNotInterfere ==
  \A c \in Calls :
    /\ calls[c].pc \in {"classifying", "deleting", "returned"}
         => locals[Slot(c)] = calls[c].alone.locals
    /\ calls[c].progress = calls[c].alone.progress
    /\ calls[c].callText = calls[c].alone.callText
    /\ calls[c].returned = calls[c].alone.returned

C19_Witness ==
  /\ calls[1].pc = "returned" /\ calls[1].returned = <<"A">>
  /\ calls[2].pc = "deleting" /\ calls[2].i = 1
  /\ locals[2].last = "B" /\ locals[2].count = 1

\* s is t, or t with its last elements left off.
IsPrefix(s, t) == Len(s) <= Len(t) /\ SubSeq(t, 1, Len(s)) = s

\* C21: translatedText only grows by appending, and the text argument of
\* every progress call is a prefix of the text argument of the next call.
C21_SnapshotsArePrefixes ==
  /\ [][IsPrefix(translatedText, translatedText')]_vars
  /\ [][(Report' # Report /\ progress # -1) => IsPrefix(callText, callText')]_vars

\* C22: a prediction whose letter differs from the last letter makes it the
\* last letter and sets the run count to 1.
C22_NewLabelCountsOne ==
  [][(FrameStep /\ eventKind' \in {"at", "above"} /\ agreeLetter' # lastPredictedLetter)
       => (lastPredictedLetter' = agreeLetter' /\ framesConsistent' = 1)]_vars

\* C23: a letter is appended only on the frame where the run count becomes
\* requiredRun, the count is then 0 and the last letter is kept; while every
\* frame is a prediction of the letter just committed, the next commit comes
\* exactly requiredRun frames after the last one and none in between.
C23_CommitSpacing ==
  /\ [][Commits =>
          /\ FrameStep
          /\ framesConsistent + 1 = consistencyFrames
          /\ framesConsistent' = 0
          /\ lastPredictedLetter' = lastPredictedLetter
          /\ translatedText' = Append(translatedText, lastPredictedLetter)]_vars
  /\ [][(Commits /\ heldSince >= 0) => heldSince + 1 = consistencyFrames]_vars
  /\ [](heldSince < consistencyFrames)
  /\ [](heldSince >= 0 => framesConsistent = heldSince)

C23_Witness ==
  /\ Len(translatedText) = 2
  /\ heldSince = 1
  /\ Processed = 2 * consistencyFrames + 2

\* The percents of the loop lie in the band 10..90, for every frame count
\* extractFrames can return.
LoopPercentsInBand ==
  \A n \in 1..frameCount : \A k \in 0..(n - 1) :
    /\ FrameProgress(k, n) \in 10..90
    /\ FrameProgress(k, n) = 30 + ((60 * k) \div n)

\* C24: the percent of a per-frame call is determined by the frame index and
\* the frame count alone and lies in 10..90, for every frame count 1..100;
\* every percent reported is an integer in 0..100.
C24_PercentInBand ==
  /\ pc = "idle" => LoopPercentsInBand
  /\ progress # -1 => progress \in 0..100
  /\ callFrame # -1 =>
       /\ progress = 30 + ((60 * callFrame) \div frames)
       /\ progress \in 10..90

C24_Witness ==
  /\ pc = "deleting" /\ callFrame = i /\ i = frames - 1 /\ frames >= 9
  /\ progress > 80

\* Frames extracted and not yet handed to deleteAsync.
Unreleased ==
  {frameUris[k] : k \in 1..Len(frameUris)} \ {deleted[k] : k \in 1..Len(deleted)}

\* C25: at every point of a session at most one frame is extracted and not
\* yet released, the one being processed.
C25_NoAccumulation ==
  /\ Cardinality(Unreleased) <= 1
  /\ pc = "classifying" => Unreleased \subseteq {FrameAt(frameUris, i)}

\* C26: a frame appends at most one letter to translatedText, at its end, and
\* that letter is the one predicted for this frame; nothing else writes the
\* text, and the text returned is the text so built.
C26_TranscriptInFrameOrder ==
  /\ [][FrameStep =>
          \/ translatedText' = translatedText
          \/ /\ eventKind' \in {"at", "above"}
             /\ translatedText' = Append(translatedText, agreeLetter')]_vars
  /\ [][~ FrameStep => translatedText' = translatedText]_vars
  /\ [](outcome = "returned" => callText = translatedText)

C26_Witness ==
  outcome = "returned" /\ translatedText = <<"A", "B">> /\ callText = <<"A", "B">>

\* C27: in a second call on the same instance the three locals, and the text
\* returned, are those of a first call fed the same results, whatever the
\* call before ended with.
C27_SecondCallStartsFresh ==
  session = 2 =>
    /\ InLoop =>
         /\ translatedText = fresh.text
         /\ lastPredictedLetter = fresh.last
         /\ framesConsistent = fresh.count
    /\ outcome = "returned" => callText = fresh.text

C27_Witness ==
  /\ session = 2 /\ carried
  /\ outcome = "returned"
  /\ translatedText = <<"B">>
  /\ framesConsistent = 0

\* C28: whichever deletions fail, the step that follows a deletion is the
\* one that follows a successful deletion; the session classifies every
\* frame, throws nothing, and its text and its percents are those its
\* results alone determine.
C28_DeleteFailureIgnored ==
  /\ [][pc = "deleting" =>
          /\ i' = i + 1
          /\ Session' = Session
          /\ (i + 1 < frames =>
                /\ pc' = "classifying"
                /\ Report' = Report
                /\ classified' = Append(classified, FrameAt(frameUris, i + 1)))
          /\ (i + 1 = frames =>
                /\ pc' = "returned"
                /\ progress' = 100
                /\ callText' = translatedText)]_vars
  /\ [](frames >= 1 => pc # "thrown")
  /\ [](pc \in {"classifying", "deleting"} => ENABLED NextDeleteFails)
  /\ [](InLoop => (translatedText = fresh.text /\ framesConsistent = fresh.count))
  /\ [](callFrame # -1 => progress = FrameProgress(callFrame, frames))
  /\ [](outcome = "returned" =>
          /\ Len(classified) = frames
          /\ callText = fresh.text
          /\ progress = 100)

C28_Witness ==
  /\ outcome = "returned"
  /\ undeleted = {0, 2, 3}
  /\ translatedText = <<"A">>
  /\ frames = 5

\* C29: extractFrames returns at most 100 frames, and after k frames of a
\* session the text has at most floor(k / 15) letters: at most 6 when it is
\* returned.
C29_OutputBounded ==
  /\ frames <= frameCount
  /\ Len(frameUris) <= frameCount
  /\ pc \notin {"idle", "extracting"} => frames = Len(frameUris)
  /\ InLoop => Len(translatedText) <= Processed \div CONSISTENCY_FRAMES
  /\ outcome = "returned" =>
       /\ Len(callText) <= frames \div CONSISTENCY_FRAMES
       /\ Len(callText) <= 6

C29_Witness ==
  /\ outcome = "returned"
  /\ frames = frameCount
  /\ Len(translatedText) = 6
  /\ eventKind = "throw"

\* C30: after any presses at most one option is drawn active; a press of an
\* option makes it the active one, or none active when it was the active
\* one; Start Now is shown exactly when an option is active.
C30_OneActiveOption ==
  /\ [](Cardinality({id \in CameraCommunicationData : isActive(id)}) <= 1)
  /\ [](StartNowShown <=> \E id \in CameraCommunicationData : isActive(id))
  /\ [][presses' # presses =>
          LET id == presses'[Len(presses')]
          IN  IF isActive(id)
                THEN \A o \in CameraCommunicationData : activeId' # o
                ELSE activeId' = id]_vars

C30_Witness ==
  /\ presses = <<1, 2, 2, 1>>
  /\ isActive(1)
  /\ StartNowShown

====
